---- MODULE Spec2Model ----
(***************************************************************************)
(* Model of src/app.py: the transcription job (split_audio, the per-chunk  *)
(* loop of transcribe, the output files) and the subtitle synthesis        *)
(* (detect_repetition_pattern, is_valid_text, parse_timestamp,             *)
(* format_srt_timestamp, format_srt).                                      *)
(*                                                                         *)
(* A text is the sequence of its whitespace-separated words, a word the    *)
(* sequence of its characters.  A line of a transcript is a record         *)
(* [kind, tok, text]: kind "blank" (only whitespace), "plain" (no '['),    *)
(* "stamped" (a bracketed token followed by text).  The token is what      *)
(* stands between the brackets: two integer fields mm:ss, or anything      *)
(* else ("bad").                                                           *)
(***************************************************************************)
EXTENDS Integers, Sequences, FiniteSets, TLC

VARIABLES
    pc,               \* position of the running operation
    \* ---- transcribe / split_audio
    audio,            \* the uploaded file: none, undecodable, or its length
    segments,         \* split_audio: segments built so far
    files,            \* temporary segment files that exist in output/
    seg_i,            \* loop index (split_audio: next i; transcribe: next segment)
    all_transcripts,  \* transcribe: all_transcripts
    prompts,          \* minute numbers sent in the prompts, in call order
    outcomes,         \* history: what the service did for each processed segment
    result,           \* what transcribe returned / wrote
    \* ---- format_srt
    lines,            \* timestamps_text.split('\n')
    pos,              \* number of lines consumed by the for loop
    norm,             \* entries, seen_timestamps, seen_texts, current_entry,
                      \* last_end_time, last_text
    accepted,         \* history: texts for which is_valid_text returned True
    emitted,          \* history: the lines for which an entry was appended
    \* ---- detect_repetition_pattern / is_valid_text on one text
    ftext,
    fresult

jobVars == <<audio, segments, files, seg_i, all_transcripts, prompts, outcomes, result>>
srtVars == <<lines, pos, norm, accepted, emitted>>
filterVars == <<ftext, fresult>>
vars == <<pc, audio, segments, files, seg_i, all_transcripts, prompts, outcomes,
          result, lines, pos, norm, accepted, emitted, ftext, fresult>>

----------------------------------------------------------------------------
(* Bounds *)
MaxLines == 3        \* lines in one format_srt input
MaxWords == 6        \* words in a text given to the filter
MaxChunks == 3       \* segments of one recording

(* Program constants *)
SegmentDuration == 300000
MinGap == 1
EntryDuration == 3

NoneT == -1          \* parse_timestamp's None (tokens of the model are >= 0)

----------------------------------------------------------------------------
(* Words and texts *)
w_a == <<"a">>
w_a6 == <<"a", "a", "a", "a", "a", "a">>
w_foo == <<"f", "o", "o">>
w_bar == <<"b", "a", "r">>
w_the == <<"t", "h", "e">>
w_weather == <<"w", "e", "a", "t", "h", "e", "r">>
w_today == <<"t", "o", "d", "a", "y">>
w_is == <<"i", "s">>
w_sunny == <<"s", "u", "n", "n", "y">>

TextA == << <<"A">> >>
TextB == << <<"B">> >>
TextRun == <<w_a6>>
TextFooFooFoo == <<w_foo, w_foo, w_foo>>
TextFooBar == <<w_foo, w_bar, w_foo, w_bar, w_foo, w_bar>>
TextWeather == <<w_the, w_weather, w_today, w_is, w_sunny>>

RECURSIVE SeqsUpTo(_, _)
SeqsUpTo(S, n) ==
    IF n = 0 THEN {<<>>}
    ELSE LET shorter == SeqsUpTo(S, n - 1)
         IN shorter \cup {Append(s, x) : s \in shorter, x \in S}

Max(a, b) == IF a >= b THEN a ELSE b

----------------------------------------------------------------------------
(* parse_timestamp, format_srt_timestamp *)
BadTok == [fmt |-> "bad", mm |-> 0, ss |-> 0]
Tok(m, s) == [fmt |-> "mmss", mm |-> m, ss |-> s]

ParseTimestamp(tok) ==
    IF tok.fmt = "mmss" THEN tok.mm * 60 + tok.ss ELSE NoneT

FormatSrtTimestamp(seconds) ==
    [hours |-> seconds \div 3600,
     minutes |-> (seconds % 3600) \div 60,
     secs |-> seconds % 60]

----------------------------------------------------------------------------
(* detect_repetition_pattern, is_valid_text *)
RECURSIVE Chars(_)
Chars(text) ==
    IF text = <<>> THEN <<>> ELSE Head(text) \o Chars(Tail(text))

Elems(s) == {s[i] : i \in 1..Len(s)}

WordPairs(words) == [i \in 1..(Len(words) - 1) |-> <<words[i], words[i + 1]>>]

DetectRepetitionPattern(text) ==
    IF text = <<>> THEN TRUE
    ELSE IF Len(Chars(text)) > 2 /\ Cardinality(Elems(Chars(text))) = 1 THEN TRUE
    ELSE IF Len(text) > 2 /\ Cardinality(Elems(text)) = 1 THEN TRUE
    ELSE IF Len(text) > 4 /\ Cardinality(Elems(WordPairs(text))) = 1 THEN TRUE
    ELSE FALSE

IsValidTextAdjacentOnly(text, seen_texts, last_text) ==
    /\ text # <<>>
    /\ ~DetectRepetitionPattern(text)
    /\ text # last_text

IsValidText(text, seen_texts, last_text) ==
    /\ text # <<>>
    /\ ~DetectRepetitionPattern(text)
    /\ text \notin seen_texts
    /\ text # last_text

----------------------------------------------------------------------------
(* format_srt *)
BlankLine == [kind |-> "blank", tok |-> BadTok, text |-> <<>>]
PlainLine == [kind |-> "plain", tok |-> BadTok, text |-> TextA]
Stamped(tok, text) == [kind |-> "stamped", tok |-> tok, text |-> text]

InitNorm ==
    [entries |-> <<>>, seen_timestamps |-> {}, seen_texts |-> {},
     current_entry |-> 1, last_end_time |-> 0, last_text |-> <<>>]

ClampStartNoGap(t, last_end_time) == Max(t, last_end_time)

ClampStart(t, last_end_time) == Max(t, last_end_time + MinGap)

\* the line reaches is_valid_text and it returns True (line 164)
PassesFilter(st, line) ==
    /\ line.kind = "stamped"
    /\ IsValidText(line.text, st.seen_texts, st.last_text)

\* the line reaches entries.append (line 181)
Emits(st, line) ==
    /\ PassesFilter(st, line)
    /\ ParseTimestamp(line.tok) # NoneT
    /\ ParseTimestamp(line.tok) \notin st.seen_timestamps

AppendEntry(st, line) ==
    LET start_time == ClampStart(ParseTimestamp(line.tok), st.last_end_time)
        end_time == start_time + EntryDuration
    IN [entries |-> Append(st.entries,
                       [index |-> st.current_entry,
                        start_stamp |-> FormatSrtTimestamp(start_time),
                        end_stamp |-> FormatSrtTimestamp(end_time),
                        text |-> line.text]),
        seen_timestamps |-> st.seen_timestamps \cup {start_time},
        seen_texts |-> st.seen_texts \cup {line.text},
        current_entry |-> st.current_entry + 1,
        last_end_time |-> end_time,
        last_text |-> line.text]

SrtStepEagerSeen(st, line) ==
    IF Emits(st, line) THEN AppendEntry(st, line)
    ELSE IF PassesFilter(st, line)
         THEN [st EXCEPT !.seen_texts = @ \cup {line.text}]
         ELSE st

SrtStep(st, line) ==
    IF Emits(st, line) THEN AppendEntry(st, line) ELSE st

RECURSIVE FormatSrtFrom(_, _)
FormatSrtFrom(st, ls) ==
    IF ls = <<>> THEN st ELSE FormatSrtFrom(SrtStep(st, Head(ls)), Tail(ls))

FormatSrt(ls) == FormatSrtFrom(InitNorm, ls).entries

----------------------------------------------------------------------------
(* split_audio, get_segment_prompt, the loop of transcribe *)
CeilDiv(a, b) == (a + b - 1) \div b

NumSegments(length_ms) == CeilDiv(length_ms, SegmentDuration)

Segment(i) == [path |-> i, start_time |-> (i * SegmentDuration) \div 1000]

PromptMinutes(start_time) == start_time \div 60

\* response.text.strip() is empty
IsBlankText(text) == \A k \in 1..Len(text) : text[k].kind = "blank"

ShiftLine(line, offset) ==
    IF line.kind = "stamped" /\ line.tok.fmt = "mmss"
    THEN [line EXCEPT !.tok = Tok(line.tok.mm + (offset \div 60), line.tok.ss + (offset % 60))]
    ELSE line

AppendTranscriptShifted(transcripts, segment, outcome) ==
    IF outcome.kind = "ok" /\ ~IsBlankText(outcome.text)
    THEN Append(transcripts,
                [k \in 1..Len(outcome.text) |-> ShiftLine(outcome.text[k], segment.start_time)])
    ELSE transcripts

AppendTranscriptNoStrip(transcripts, segment, outcome) ==
    IF outcome.kind = "ok" THEN Append(transcripts, outcome.text) ELSE transcripts

AppendTranscriptWithErrors(transcripts, segment, outcome) ==
    IF outcome.kind = "ok"
    THEN (IF IsBlankText(outcome.text) THEN transcripts ELSE Append(transcripts, outcome.text))
    ELSE Append(transcripts, <<PlainLine>>)

\* lines 207-222: what one pass through the try block leaves in all_transcripts
AppendTranscript(transcripts, segment, outcome) ==
    IF outcome.kind = "ok" /\ ~IsBlankText(outcome.text)
    THEN Append(transcripts, outcome.text)
    ELSE transcripts

\* "\n".join(all_transcripts), as the sequence of its lines
RECURSIVE JoinTranscripts(_)
JoinTranscripts(transcripts) ==
    IF transcripts = <<>> THEN <<>>
    ELSE Head(transcripts) \o JoinTranscripts(Tail(transcripts))

----------------------------------------------------------------------------
(* Inputs *)
SrtToks == {Tok(0, 0), Tok(0, 10), Tok(0, 11), Tok(0, 70), Tok(1, 10), BadTok}

SrtLines ==
    {Stamped(tok, text) : tok \in SrtToks, text \in {TextA, TextB}}
        \cup {Stamped(Tok(0, 10), TextFooFooFoo), Stamped(Tok(0, 11), <<>>),
              BlankLine, PlainLine}

FilterWords == {w_a, w_a6, w_foo, w_bar}

FilterTexts ==
    SeqsUpTo(FilterWords, MaxWords)
        \cup {TextRun, TextFooFooFoo, TextFooBar, TextWeather}

AudioLengths ==
    {0, SegmentDuration} \cup {c * SegmentDuration + 1 : c \in 0..(MaxChunks - 1)}

Audios ==
    {[kind |-> "none", length_ms |-> 0], [kind |-> "undecodable", length_ms |-> 0]}
        \cup {[kind |-> "audio", length_ms |-> n] : n \in AudioLengths}

JobLines == {BlankLine, Stamped(Tok(0, 10), TextA), Stamped(Tok(0, 10), TextB)}

\* the answers of one or two lines (an empty answer is one blank line)
Responses == SeqsUpTo(JobLines, 2) \ {<<>>}

Outcomes ==
    {[kind |-> "ok", text |-> r] : r \in Responses}
        \cup {[kind |-> k, text |-> <<>>] :
                 k \in {"upload_error", "service_error", "invalid_response"}}

NoResult == [status |-> "none", txt |-> <<>>, srt |-> <<>>, preview |-> <<>>, msg |-> ""]

ErrorResult(m) == [status |-> "error", txt |-> <<>>, srt |-> <<>>, preview |-> <<>>, msg |-> m]

JobIdle ==
    /\ audio = [kind |-> "none", length_ms |-> 0]
    /\ segments = <<>>
    /\ files = {}
    /\ seg_i = 0
    /\ all_transcripts = <<>>
    /\ prompts = <<>>
    /\ outcomes = <<>>
    /\ result = NoResult

SrtIdle ==
    /\ lines = <<>>
    /\ pos = 0
    /\ norm = InitNorm
    /\ accepted = <<>>
    /\ emitted = <<>>

FilterIdle ==
    /\ ftext = <<>>
    /\ fresult = [done |-> FALSE, repetition |-> FALSE, valid |-> FALSE]

----------------------------------------------------------------------------
(* transcribe *)
Init ==
    /\ pc = "start"
    /\ audio \in Audios
    /\ segments = <<>>
    /\ files = {}
    /\ seg_i = 0
    /\ all_transcripts = <<>>
    /\ prompts = <<>>
    /\ outcomes = <<>>
    /\ result = NoResult
    /\ SrtIdle
    /\ FilterIdle

\* lines 197-198
NoFile ==
    /\ pc = "start"
    /\ audio.kind = "none"
    /\ pc' = "error"
    /\ result' = ErrorResult("Please upload an audio file.")
    /\ UNCHANGED <<audio, segments, files, seg_i, all_transcripts, prompts, outcomes>>
    /\ UNCHANGED <<srtVars, filterVars>>

\* line 49 raises: the except of line 246 returns the job-level error
DecodeFails ==
    /\ pc = "start"
    /\ audio.kind = "undecodable"
    /\ pc' = "error"
    /\ result' = ErrorResult("Error: decode")
    /\ UNCHANGED <<audio, segments, files, seg_i, all_transcripts, prompts, outcomes>>
    /\ UNCHANGED <<srtVars, filterVars>>

\* lines 49-54
LoadAudio ==
    /\ pc = "start"
    /\ audio.kind = "audio"
    /\ pc' = "split"
    /\ seg_i' = 0
    /\ UNCHANGED <<audio, segments, files, all_transcripts, prompts, outcomes, result>>
    /\ UNCHANGED <<srtVars, filterVars>>

\* lines 56-69, one iteration
ExportSegment ==
    /\ pc = "split"
    /\ seg_i < NumSegments(audio.length_ms)
    /\ files' = files \cup {Segment(seg_i).path}
    /\ segments' = Append(segments, Segment(seg_i))
    /\ seg_i' = seg_i + 1
    /\ UNCHANGED <<pc, audio, all_transcripts, prompts, outcomes, result>>
    /\ UNCHANGED <<srtVars, filterVars>>

\* line 65 raises (encoder or I/O error); the output file may already have been
\* opened for writing.  The exception leaves split_audio and reaches line 246.
ExportFails ==
    /\ pc = "split"
    /\ seg_i < NumSegments(audio.length_ms)
    /\ \E created \in BOOLEAN :
           files' = IF created THEN files \cup {Segment(seg_i).path} ELSE files
    /\ pc' = "error"
    /\ result' = ErrorResult("Error: export")
    /\ UNCHANGED <<audio, segments, seg_i, all_transcripts, prompts, outcomes>>
    /\ UNCHANGED <<srtVars, filterVars>>

\* line 71, lines 202-203
SplitDone ==
    /\ pc = "split"
    /\ seg_i = NumSegments(audio.length_ms)
    /\ pc' = "chunks"
    /\ seg_i' = 1
    /\ all_transcripts' = <<>>
    /\ UNCHANGED <<audio, segments, files, prompts, outcomes, result>>
    /\ UNCHANGED <<srtVars, filterVars>>

\* lines 206-226, one iteration: try, except, finally
ProcessSegment ==
    /\ pc = "chunks"
    /\ seg_i <= Len(segments)
    /\ \E outcome \in Outcomes :
           LET segment == segments[seg_i]
           IN /\ all_transcripts' = AppendTranscript(all_transcripts, segment, outcome)
              /\ prompts' = IF outcome.kind = "upload_error" THEN prompts
                            ELSE Append(prompts,
                                        [segment |-> seg_i,
                                         minutes |-> PromptMinutes(segment.start_time)])
              /\ outcomes' = Append(outcomes, outcome)
              /\ files' = files \ {segment.path}
    /\ seg_i' = seg_i + 1
    /\ UNCHANGED <<pc, audio, segments, result>>
    /\ UNCHANGED <<srtVars, filterVars>>

\* lines 229-244
Finish ==
    /\ pc = "chunks"
    /\ seg_i > Len(segments)
    /\ LET transcript == JoinTranscripts(all_transcripts)
           srt_content == FormatSrt(transcript)
       IN result' = [status |-> "ok", txt |-> transcript, srt |-> srt_content,
                     preview |-> transcript, msg |-> ""]
    /\ pc' = "done"
    /\ UNCHANGED <<audio, segments, files, seg_i, all_transcripts, prompts, outcomes>>
    /\ UNCHANGED <<srtVars, filterVars>>

\* lines 239-242 raise: the except of line 246 returns the job-level error
SaveFails ==
    /\ pc = "chunks"
    /\ seg_i > Len(segments)
    /\ pc' = "error"
    /\ result' = ErrorResult("Error: save")
    /\ UNCHANGED <<audio, segments, files, seg_i, all_transcripts, prompts, outcomes>>
    /\ UNCHANGED <<srtVars, filterVars>>

Next ==
    \/ NoFile
    \/ DecodeFails
    \/ LoadAudio
    \/ ExportSegment
    \/ ExportFails
    \/ SplitDone
    \/ ProcessSegment
    \/ Finish
    \/ SaveFails

Spec == Init /\ [][Next]_vars

----------------------------------------------------------------------------
(* format_srt, line by line *)
InitSrt ==
    /\ pc = "srt"
    /\ lines \in SeqsUpTo(SrtLines, MaxLines)
    /\ pos = 0
    /\ norm = InitNorm
    /\ accepted = <<>>
    /\ emitted = <<>>
    /\ JobIdle
    /\ FilterIdle

\* lines 154-189, one iteration of the for loop
SrtLine ==
    /\ pc = "srt"
    /\ pos < Len(lines)
    /\ LET line == lines[pos + 1]
       IN /\ norm' = SrtStep(norm, line)
          /\ accepted' = IF PassesFilter(norm, line)
                         THEN Append(accepted, line.text) ELSE accepted
          /\ emitted' = IF Emits(norm, line) THEN Append(emitted, line) ELSE emitted
    /\ pos' = pos + 1
    /\ UNCHANGED <<pc, lines>>
    /\ UNCHANGED <<jobVars, filterVars>>

\* line 191
SrtReturn ==
    /\ pc = "srt"
    /\ pos = Len(lines)
    /\ pc' = "srt_done"
    /\ UNCHANGED <<lines, pos, norm, accepted, emitted>>
    /\ UNCHANGED <<jobVars, filterVars>>

NextSrt ==
    \/ SrtLine
    \/ SrtReturn

SpecSrt == InitSrt /\ [][NextSrt]_vars

----------------------------------------------------------------------------
(* detect_repetition_pattern and is_valid_text on one text, at the start of a pass *)
InitFilter ==
    /\ pc = "filter"
    /\ ftext \in FilterTexts
    /\ fresult = [done |-> FALSE, repetition |-> FALSE, valid |-> FALSE]
    /\ JobIdle
    /\ SrtIdle

ApplyFilter ==
    /\ pc = "filter"
    /\ ~fresult.done
    /\ fresult' = [done |-> TRUE,
                   repetition |-> DetectRepetitionPattern(ftext),
                   valid |-> IsValidText(ftext, {}, <<>>)]
    /\ pc' = "filter_done"
    /\ UNCHANGED ftext
    /\ UNCHANGED <<jobVars, srtVars>>

NextFilter == ApplyFilter

SpecFilter == InitFilter /\ [][NextFilter]_vars

----------------------------------------------------------------------------
(* Reading the results *)
StampSeconds(stamp) == stamp.hours * 3600 + stamp.minutes * 60 + stamp.secs

StartSeconds(e) == StampSeconds(e.start_stamp)

EndSeconds(e) == StampSeconds(e.end_stamp)

\* the timestamp the model reported on the line behind entry i
Reported(i) == ParseTimestamp(emitted[i].tok)

Failed(o) == o.kind # "ok"

\* the raw text of the chunks that answered with non-blank text, in chunk order
RECURSIVE RawTextUpTo(_)
RawTextUpTo(n) ==
    IF n = 0 THEN <<>>
    ELSE RawTextUpTo(n - 1)
             \o (IF outcomes[n].kind = "ok" /\ ~IsBlankText(outcomes[n].text)
                 THEN outcomes[n].text ELSE <<>>)

RawText == RawTextUpTo(Len(outcomes))

\* the same text with each chunk's start offset added into its timestamps
RECURSIVE OffsetTextUpTo(_)
OffsetTextUpTo(n) ==
    IF n = 0 THEN <<>>
    ELSE OffsetTextUpTo(n - 1)
             \o (IF outcomes[n].kind = "ok" /\ ~IsBlankText(outcomes[n].text)
                 THEN [k \in 1..Len(outcomes[n].text) |->
                          ShiftLine(outcomes[n].text[k], segments[n].start_time)]
                 ELSE <<>>)

OffsetText == OffsetTextUpTo(Len(outcomes))

\* all_transcripts of a job in which only the non-failing chunks were processed
RECURSIVE TranscriptsWithoutFailures(_)
TranscriptsWithoutFailures(n) ==
    IF n = 0 THEN <<>>
    ELSE IF Failed(outcomes[n]) THEN TranscriptsWithoutFailures(n - 1)
    ELSE AppendTranscript(TranscriptsWithoutFailures(n - 1), segments[n], outcomes[n])

Times(entries) == [i \in 1..Len(entries) |-> <<entries[i].start_stamp, entries[i].end_stamp>>]

EntryTexts(entries) == {entries[i].text : i \in 1..Len(entries)}

----------------------------------------------------------------------------
(* C1: in every state of a format_srt pass, each entry starts at least one  *)
(* second after the end of the entry before it.                             *)
C1_Monotonic ==
    \A i \in 1..(Len(norm.entries) - 1) :
        StartSeconds(norm.entries[i + 1]) >= EndSeconds(norm.entries[i]) + 1

\* two entries whose reported timestamps went backwards
C1_Witness ==
    /\ Len(norm.entries) >= 2
    /\ Reported(2) < Reported(1)

(* C2 as stated: when a chunk failed, every stamped line of every chunk     *)
(* that answered is the text of an entry of the subtitle file.              *)
C2_EveryLineInSubtitles ==
    (pc = "done" /\ \E n \in 1..Len(outcomes) : Failed(outcomes[n]))
        => \A n \in 1..Len(outcomes) : \A k \in 1..Len(outcomes[n].text) :
               outcomes[n].text[k].kind = "stamped"
                   => outcomes[n].text[k].text \in EntryTexts(result.srt)

(* C2, amended: a failing chunk never ends the job with an error, every     *)
(* segment is attempted, and the transcript and the subtitle entries are    *)
(* those of the job in which only the non-failing chunks were processed.    *)
C2_ChunkIsolation ==
    /\ pc = "error" =>
           result.msg \in {"Please upload an audio file.", "Error: decode",
                           "Error: export", "Error: save"}
    /\ pc = "done" =>
           /\ Len(outcomes) = Len(segments)
           /\ result.txt = JoinTranscripts(TranscriptsWithoutFailures(Len(outcomes)))
           /\ result.srt =
                  FormatSrt(JoinTranscripts(TranscriptsWithoutFailures(Len(outcomes))))

\* a finished job of three chunks, the second failed, the others in the subtitles
C2_Witness ==
    /\ pc = "done"
    /\ Len(outcomes) >= 3
    /\ ~Failed(outcomes[1]) /\ Failed(outcomes[2]) /\ ~Failed(outcomes[3])
    /\ Len(result.srt) >= 1
    /\ Len(result.txt) >= 2

(* C3 as stated: the entries are those of the lines with each chunk's start *)
(* offset added into the reported timestamps.                               *)
C3_OffsetAdded ==
    pc = "done" => Times(result.srt) = Times(FormatSrt(OffsetText))

(* C3, amended: the entries are timed from the timestamps as the model      *)
(* reported them; the chunk's offset only sets the minute of its prompt.    *)
C3_ReportedTimeUsed ==
    /\ \A k \in 1..Len(prompts) :
           prompts[k].minutes = segments[prompts[k].segment].start_time \div 60
    /\ pc = "done" => Times(result.srt) = Times(FormatSrt(RawText))

\* an entry made from a line of the second chunk, whose offset is 300 s
C3_Witness ==
    /\ pc = "done"
    /\ Len(outcomes) >= 2
    /\ Failed(outcomes[1]) /\ outcomes[2].kind = "ok"
    /\ segments[2].start_time = 300
    /\ Len(result.srt) >= 1
    /\ \E k \in 1..Len(prompts) : prompts[k].minutes = 5

(* C4: the filter reports repetition for a run of more than two copies of   *)
(* one character, for three or more identical words and for five or more    *)
(* words that repeat a 2-word cycle, and accepts the line of distinct words.*)
C4_RepetitionDetected ==
    fresult.done =>
        /\ (Len(Chars(ftext)) > 2 /\ Cardinality(Elems(Chars(ftext))) = 1)
               => fresult.repetition /\ ~fresult.valid
        /\ (Len(ftext) >= 3 /\ Cardinality(Elems(ftext)) = 1)
               => fresult.repetition /\ ~fresult.valid
        /\ (Len(ftext) >= 5 /\ \A i \in 1..(Len(ftext) - 2) : ftext[i] = ftext[i + 2])
               => fresult.repetition /\ ~fresult.valid
        /\ ftext = TextWeather => ~fresult.repetition /\ fresult.valid

(* C5 as stated: no text passes the Hallucination Filter twice in a pass.   *)
C5_AcceptedOnce ==
    \A i, j \in 1..Len(accepted) : i # j => accepted[i] # accepted[j]

(* C5, amended: no two entries of a pass have the same text.                *)
C5_OneEntryPerText ==
    \A i, j \in 1..Len(norm.entries) :
        i # j => norm.entries[i].text # norm.entries[j].text

\* the same text on two lines with different valid timestamps: one entry
C5_Witness ==
    /\ pos >= 2
    /\ lines[1].kind = "stamped" /\ lines[2].kind = "stamped"
    /\ lines[1].text = lines[2].text
    /\ ParseTimestamp(lines[1].tok) # NoneT
    /\ ParseTimestamp(lines[2].tok) # NoneT
    /\ ParseTimestamp(lines[2].tok) \notin norm.seen_timestamps
    /\ Len(norm.entries) = 1
    /\ Len(accepted) = 1

(* C6: no two entries of a pass come from lines that reported the same      *)
(* instant.                                                                 *)
C6_InstantUsedOnce ==
    \A i, j \in 1..Len(emitted) : i # j => Reported(i) # Reported(j)

(* C7: while the chunks are processed the temporary files that exist are    *)
(* those of the segments not yet processed, and none exists once transcribe *)
(* has returned, with results or with an error.                             *)
C7_TempFilesReleased ==
    /\ pc = "chunks" => files = {segments[k].path : k \in seg_i..Len(segments)}
    /\ pc \in {"done", "error"} => files = {}

(* C8: the transcript written and returned is the raw text of the chunks    *)
(* that answered with non-blank text, each once, in chunk order, whatever   *)
(* the filter and the normalizer drop from the subtitles.                   *)
C8_PlainTranscript ==
    pc = "done" =>
        /\ result.txt = RawText
        /\ result.preview = RawText

\* a failed chunk, a blank answer, and a line that is in the transcript but
\* not in the subtitles
C8_Witness ==
    /\ pc = "done"
    /\ \E n \in 1..Len(outcomes) : Failed(outcomes[n])
    /\ \E n \in 1..Len(outcomes) : outcomes[n].kind = "ok" /\ IsBlankText(outcomes[n].text)
    /\ Len(result.srt) >= 1
    /\ Len(result.srt) < Cardinality({k \in 1..Len(result.txt) : result.txt[k].kind = "stamped"})

(* C9: every entry starts at max(t, previous end + 1) of its reported t,    *)
(* the first entry at its reported t, and ends 3 seconds later.             *)
C9_StartAndEnd ==
    \A i \in 1..Len(norm.entries) :
        /\ StartSeconds(norm.entries[i]) =
               (IF i = 1 THEN Reported(1)
                ELSE Max(Reported(i), EndSeconds(norm.entries[i - 1]) + 1))
        /\ EndSeconds(norm.entries[i]) = StartSeconds(norm.entries[i]) + 3

(* C10: a step of the loop that appends no entry changes nothing of the     *)
(* normalizer state, and the state is always the one reached from the lines *)
(* that produced entries alone.                                             *)
C10_SkipLeavesState ==
    /\ [](norm = FormatSrtFrom(InitNorm, emitted))
    /\ [][Len(norm'.entries) = Len(norm.entries) => norm' = norm]_vars

\* three lines read, one entry, and a line that passed the filter was skipped
C10_Witness ==
    /\ pos = 3
    /\ Len(norm.entries) = 1
    /\ Len(accepted) = 2
    /\ norm.seen_texts = {norm.entries[1].text}

====
